---- MODULE Spec2Model ----
(***************************************************************************)
(* A model of the YARS media pipeline: the extractor of                    *)
(* media_scraping_utils.py (a chain of pure rules over a post's JSON), the *)
(* RedGIFs resolver get_redgifs_mp4_url, and the downloaders of utils.py.  *)
(*                                                                         *)
(* Python values are tagged records: None, numbers, strings, dicts and     *)
(* lists.  A dict is a function from its keys, so a missing key is a key   *)
(* outside the DOMAIN.  A string is the sequence of its lexemes            *)
(* ("https://", "i.redd.it/", "abc", ".jpg", "?w=1", ...): each regular    *)
(* expression and substring test of the code is computed on that sequence, *)
(* the lexemes being cut so that a pattern never straddles one.  An        *)
(* exception raised by an expression is the value Raised.                  *)
(***************************************************************************)
EXTENDS Integers, Sequences, FiniteSets, TLC

----------------------------------------------------------------------------
(* Python values *)

Null == [t |-> "null"]
Num == [t |-> "num"]
Bool(b) == [t |-> "bool", b |-> b]
Raised == [t |-> "raise"]
Str(s) == [t |-> "str", s |-> s]
Dict(d) == [t |-> "dict", d |-> d]
List(l) == [t |-> "list", l |-> l]
EmptyStr == Str(<< >>)
EmptyDict == Dict(<< >>)

\* bool(v): None, False, "", {} and [] are falsy; Num is the number 5, truthy.
Truthy(v) ==
    CASE v.t = "null" -> FALSE
      [] v.t = "bool" -> v.b
      [] v.t = "str" -> v.s # << >>
      [] v.t = "dict" -> DOMAIN v.d # {}
      [] v.t = "list" -> v.l # << >>
      [] OTHER -> TRUE

\* a or b
Or(a, b) == IF Truthy(a) THEN a ELSE b

\* isinstance(v, dict) and v.get(k, default); the caller checks IsDict first,
\* as .get on anything else raises AttributeError.
IsDict(v) == v.t = "dict"
IsStr(v) == v.t = "str"
Has(v, k) == k \in DOMAIN v.d
Get(v, k, default) == IF Has(v, k) THEN v.d[k] ELSE default

Min(S) == CHOOSE x \in S : \A y \in S : x <= y

----------------------------------------------------------------------------
(* Lexemes and the character classes the regular expressions use *)

\* lexemes made of [A-Za-z0-9] only
Alnum == {"abc", "Xyz", "q1"}
\* lexemes made of [A-Za-z0-9_-] only
IdChar == Alnum \cup {"_", "-poster", "-mobile"}
\* lexemes ending in "/"
SlashEnd == {"https://", "/", "/watch/", "/ifr/", "i.redd.it/", "preview.redd.it/", "v.redd.it/"}
\* lexemes matching (?:preview|i)\.redd\.it/
ReddItHost == {"i.redd.it/", "preview.redd.it/"}
\* lexemes beginning with "?"
Query == {"?w=1"}
\* lexemes beginning with "."
DotFirst == {".jpg", ".JPG", ".png", ".gif", ".mp4", ".MP4", ".html"}

\* str.lower() of one lexeme
LowerTok(c) ==
    CASE c = ".JPG" -> ".jpg"
      [] c = ".MP4" -> ".mp4"
      [] c = "Xyz" -> "xyz"
      [] c = "RedGIFs" -> "redgifs"
      [] c = "RedGIFs.com" -> "redgifs.com"
      [] OTHER -> c

Lower(s) == [i \in 1..Len(s) |-> LowerTok(s[i])]

\* the whitelist of extract_media_file_extension_from_url, with its dot
ExtName(c) ==
    CASE c = ".jpg" -> "jpg"
      [] c = ".jpeg" -> "jpeg"
      [] c = ".png" -> "png"
      [] c = ".gif" -> "gif"
      [] c = ".webp" -> "webp"
      [] c = ".mp4" -> "mp4"
      [] c = ".mov" -> "mov"
      [] OTHER -> ""

\* the last index of the maximal run of lexemes of class C that starts at i
RunEnd(s, i, C) ==
    CHOOSE j \in (i - 1)..Len(s) :
        /\ \A k \in i..j : s[k] \in C
        /\ (j = Len(s) \/ s[j + 1] \notin C)

\* substring tests on a string of lexemes
InStr(needle, s) == \E i \in 1..Len(s) : s[i] \in needle
HasRedgifsCom == {"redgifs.com"}
HasRedgifs == {"redgifs.com", "redgifs"}
HasRedgif == {"redgifs.com", "redgifs", "redgif"}

----------------------------------------------------------------------------
(* URL helpers *)

\* re.search(r"(?:preview|i)\.redd\.it/([a-zA-Z0-9]+)", url)
extract_media_id_from_url(s) ==
    LET hits == {i \in 1..(Len(s) - 1) : s[i] \in ReddItHost /\ s[i + 1] \in Alnum}
    IN  IF hits = {} THEN Null
        ELSE Str(SubSeq(s, Min(hits) + 1, RunEnd(s, Min(hits) + 1, Alnum)))

\* re.search(r"\.(jpg|jpeg|png|gif|webp|mp4|mov)(?:\?|$)", url, re.IGNORECASE)
extract_media_file_extension_from_url(s) ==
    LET hits == {i \in 1..Len(s) : /\ ExtName(LowerTok(s[i])) # ""
                                   /\ (i = Len(s) \/ s[i + 1] \in Query)}
    IN  IF hits = {} THEN Null
        ELSE Str(<<ExtName(LowerTok(s[Min(hits)]))>>)

\* url.endswith((".jpg", ".jpeg", ".png", ".gif", ".webp")), case-sensitive
EndsWithImageSuffix(s) ==
    /\ s # << >>
    /\ s[Len(s)] \in {".jpg", ".jpeg", ".png", ".gif", ".webp"}

\* indexes where redgifs\.com/(?:watch|ifr)/([A-Za-z0-9_-]+) matches
WatchHits(s) ==
    {i \in 1..(Len(s) - 2) : /\ s[i] \in HasRedgifsCom
                             /\ s[i + 1] \in {"/watch/", "/ifr/"}
                             /\ s[i + 2] \in IdChar}

\* indexes where /([A-Za-z0-9]+)-poster\. matches
PosterHits(s) ==
    {i \in 1..(Len(s) - 3) :
        /\ s[i] \in SlashEnd
        /\ s[i + 1] \in Alnum
        /\ LET j == RunEnd(s, i + 1, Alnum)
           IN  j + 2 <= Len(s) /\ s[j + 1] = "-poster" /\ s[j + 2] \in DotFirst}

\* (mutant of extract_redgifs_id_from_url: the thumbnail-slug pattern is missing)
extract_redgifs_id_watch_only(url) ==
    IF ~Truthy(url) THEN Null
    ELSE IF ~IsStr(url) THEN Raised
    ELSE IF WatchHits(url.s) # {}
    THEN Str(SubSeq(url.s, Min(WatchHits(url.s)) + 2, RunEnd(url.s, Min(WatchHits(url.s)) + 2, IdChar)))
    ELSE Null

\* lines 90-102
extract_redgifs_id_from_url(url) ==
    IF ~Truthy(url) THEN Null
    ELSE IF ~IsStr(url) THEN Raised
    ELSE LET s == url.s
         IN  IF WatchHits(s) # {}
             THEN Str(SubSeq(s, Min(WatchHits(s)) + 2, RunEnd(s, Min(WatchHits(s)) + 2, IdChar)))
             ELSE IF PosterHits(s) # {}
             THEN Str(SubSeq(s, Min(PosterHits(s)) + 1, RunEnd(s, Min(PosterHits(s)) + 1, Alnum)))
             ELSE Null

----------------------------------------------------------------------------
(* The extraction rules.  A rule returns Ok(list of descriptors) or Raise.  *)
(* Where the code tests `key in x`, x is None, a number, a dict or a list  *)
(* (a string there is outside the inputs of this model).                   *)

Ok(out) == [ok |-> TRUE, out |-> out]
Raise == [ok |-> FALSE, out |-> << >>]

\* (mutant of Descriptor: the media id is always the one parsed from the URL)
DescriptorIdFromUrl(meta, type, url, media_id, extension) ==
    [type |-> Str(<<type>>), url |-> url,
     media_id |-> IF IsStr(url) THEN extract_media_id_from_url(url.s) ELSE Null,
     extension |-> extension] @@ meta

\* {**meta, "type": ..., "url": ..., "media_id": ..., "extension": ...}
Descriptor(meta, type, url, media_id, extension) ==
    [type |-> Str(<<type>>), url |-> url, media_id |-> media_id,
     extension |-> extension] @@ meta

\* the key a media id looks up in the metadata map ("" is no key of any map)
KeyOf(v) == IF IsStr(v) /\ Len(v.s) = 1 THEN v.s[1] ELSE ""

\* one iteration of the loop of extract_gallery_media (lines 29-46)
GalleryItem(item, media_metadata, meta) ==
    IF ~IsDict(item) THEN Raise
    ELSE LET media_id == Get(item, "media_id", Null) IN
    IF media_metadata = Null \/ media_id = Null THEN Ok(<< >>)
    ELSE IF ~IsDict(media_metadata) THEN Raise
    ELSE LET meta_info == Get(media_metadata, KeyOf(media_id), Null) IN
    IF ~Truthy(meta_info) THEN Ok(<< >>)
    ELSE IF ~IsDict(meta_info) THEN Raise
    ELSE LET media_type == Get(meta_info, "e", Null)
             source == Get(meta_info, "s", EmptyDict) IN
    IF media_type = Str(<<"Image">>)
    THEN IF source.t = "list" THEN Ok(<< >>)
         ELSE IF ~IsDict(source) THEN Raise
         ELSE IF ~Has(source, "u") THEN Ok(<< >>)
         ELSE IF ~IsStr(source.d["u"]) THEN Raise
         ELSE Ok(<<Descriptor(meta, "image", source.d["u"], media_id,
                              extract_media_file_extension_from_url(source.d["u"].s))>>)
    ELSE IF media_type = Str(<<"Video">>)
    THEN IF ~IsDict(source) THEN Raise
         ELSE LET video_url == Or(Get(source, "mp4", Null), Get(source, "u", Null)) IN
              IF ~Truthy(video_url) THEN Ok(<< >>)
              ELSE IF ~IsStr(video_url) THEN Raise
              ELSE Ok(<<Descriptor(meta, "video", video_url, media_id,
                                   extract_media_file_extension_from_url(video_url.s))>>)
    ELSE Ok(<< >>)

\* the loop of extract_gallery_media over gallery_items, from item k on
RECURSIVE GalleryLoop(_, _, _, _)
GalleryLoop(items, k, media_metadata, meta) ==
    IF k > Len(items) THEN Ok(<< >>)
    ELSE LET one == GalleryItem(items[k], media_metadata, meta) IN
         IF ~one.ok THEN Raise
         ELSE LET rest == GalleryLoop(items, k + 1, media_metadata, meta) IN
              IF ~rest.ok THEN Raise ELSE Ok(one.out \o rest.out)

extract_gallery_media(data, meta) ==
    IF ~(Truthy(Get(data, "is_gallery", Null)) /\ Has(data, "media_metadata"))
    THEN Ok(<< >>)
    ELSE LET media_metadata == data.d["media_metadata"]
             gallery_data == Or(Get(data, "gallery_data", EmptyDict), EmptyDict) IN
    IF ~IsDict(gallery_data) THEN Raise
    ELSE LET gallery_items == Get(gallery_data, "items", List(<< >>)) IN
    IF gallery_items.t = "list" THEN GalleryLoop(gallery_items.l, 1, media_metadata, meta)
    ELSE IF gallery_items.t \in {"str", "dict"} /\ ~Truthy(gallery_items) THEN Ok(<< >>)
    ELSE Raise

extract_single_image(data, meta) ==
    LET url == Get(data, "url_overridden_by_dest", EmptyStr) IN
    IF ~IsStr(url) THEN Raise
    ELSE IF EndsWithImageSuffix(url.s)
    THEN Ok(<<Descriptor(meta, "image", url, extract_media_id_from_url(url.s),
                         extract_media_file_extension_from_url(url.s))>>)
    ELSE Ok(<< >>)

extract_single_video(data, meta) ==
    LET media == Or(Get(data, "media", Null), Get(data, "secure_media", Null)) IN
    IF ~Truthy(media) THEN Ok(<< >>)
    ELSE IF ~IsDict(media) THEN Raise
    ELSE LET reddit_video == Get(media, "reddit_video", Null) IN
    IF ~Truthy(reddit_video) \/ reddit_video.t = "list" THEN Ok(<< >>)
    ELSE IF ~IsDict(reddit_video) THEN Raise
    ELSE IF ~Has(reddit_video, "fallback_url") THEN Ok(<< >>)
    ELSE LET url == reddit_video.d["fallback_url"] IN
    IF ~IsStr(url) THEN Raise
    ELSE Ok(<<Descriptor(meta, "video", url, extract_media_id_from_url(url.s),
                         extract_media_file_extension_from_url(url.s))>>)

extract_fallback_preview(data, meta) ==
    LET preview == Get(data, "preview", EmptyDict) IN
    IF ~IsDict(preview) THEN Raise
    ELSE LET images == Get(preview, "images", List(<< >>)) IN
    IF ~Truthy(images) THEN Ok(<< >>)
    ELSE IF images.t # "list" THEN Raise
    ELSE IF ~IsDict(images.l[1]) THEN Raise
    ELSE LET source == Get(images.l[1], "source", EmptyDict) IN
    IF source.t = "list" THEN Ok(<< >>)
    ELSE IF ~IsDict(source) THEN Raise
    ELSE IF ~Has(source, "url") THEN Ok(<< >>)
    ELSE LET url == source.d["url"] IN
    IF ~IsStr(url) THEN Raise
    ELSE Ok(<<Descriptor(meta, "image", url, extract_media_id_from_url(url.s),
                         extract_media_file_extension_from_url(url.s))>>)

\* `needle in v` as "T", "F" or "X" (TypeError: v is None or a number)
InVal(needle, v) ==
    CASE v.t = "str" -> IF InStr(needle, v.s) THEN "T" ELSE "F"
      [] v.t \in {"list", "dict"} -> "F"
      [] OTHER -> "X"

\* a or b on those three values: b is evaluated only when a is false
Or3(a, b) == IF a = "F" THEN b ELSE a

\* a or b on values one of which may have raised
OrRaised(a, b) == IF a = Raised THEN Raised ELSE IF Truthy(a) THEN a ELSE b

\* (mutant of RedgifsItem: the provider key is left out)
RedgifsItemNoProvider(meta, red_id) ==
    [type |-> Str(<<"video">>), url |-> Null, media_id |-> red_id,
     redgifs_id |-> red_id, extension |-> Str(<<"mp4">>)] @@ meta

\* lines 214-222
RedgifsItem(meta, red_id) ==
    [type |-> Str(<<"video">>), url |-> Null, media_id |-> red_id,
     redgifs_id |-> red_id, extension |-> Str(<<"mp4">>),
     provider |-> Str(<<"redgifs">>)] @@ meta

\* line 200: the id from the override URL, else the embed HTML, else the thumbnail
RedIdOf(url, content_html, oembed) ==
    OrRaised(extract_redgifs_id_from_url(url),
             OrRaised(extract_redgifs_id_from_url(content_html),
                      extract_redgifs_id_from_url(Get(oembed, "thumbnail_url", EmptyStr))))

\* lines 188-194, as "T", "F" or "X"
Detected(domain, url, content_html, secure_media, oembed) ==
    LET l189 == Or3(IF InStr(HasRedgifs, domain) THEN "T" ELSE "F",
                    Or3(InVal(HasRedgifsCom, url), InVal(HasRedgifsCom, content_html)))
        l191 == IF Get(secure_media, "type", Null) = Str(<<"redgifs.com">>) THEN "T" ELSE "F"
        pn == Get(oembed, "provider_name", Null)
        l193 == IF ~Truthy(pn) THEN "F"
                ELSE IF ~IsStr(pn) THEN "X"
                ELSE IF InStr(HasRedgif, Lower(pn.s)) THEN "T" ELSE "F"
    IN  IF "X" \in {l189, l191, l193} THEN "X"
        ELSE IF "T" \in {l189, l191, l193} THEN "T" ELSE "F"

extract_redgifs_media(data, meta) ==
    IF ~Truthy(data) THEN Ok(<< >>)
    ELSE LET domain == Or(Get(data, "domain", Null), EmptyStr)
             url == Or(Get(data, "url_overridden_by_dest", EmptyStr), EmptyStr)
             media == Or(Get(data, "media", Null), EmptyDict)
             secure_media == Or(Get(data, "secure_media", Null), EmptyDict)
             media_embed == Or(Get(data, "media_embed", Null), EmptyDict)
             oembed_s == IF IsDict(secure_media)
                         THEN Or(Get(secure_media, "oembed", Null), EmptyDict)
                         ELSE EmptyDict
             oembed == IF ~Truthy(oembed_s) /\ IsDict(media)
                       THEN Or(Get(media, "oembed", Null), EmptyDict)
                       ELSE oembed_s
    IN  IF ~IsStr(domain) \/ ~IsDict(media_embed) \/ ~IsDict(secure_media) \/ ~IsDict(oembed)
        THEN Raise
        ELSE LET content_html == Or(Or(Get(media_embed, "content", EmptyStr),
                                       Get(oembed, "html", EmptyStr)), EmptyStr)
                 detected == Detected(Lower(domain.s), url, content_html, secure_media, oembed)
                 red_id == RedIdOf(url, content_html, oembed)
             IN  IF detected = "X" THEN Raise
                 ELSE IF detected = "F" THEN Ok(<< >>)
                 ELSE IF red_id = Raised THEN Raise
                 ELSE IF ~Truthy(red_id) THEN Ok(<< >>)
                 ELSE Ok(<<RedgifsItem(meta, red_id)>>)

----------------------------------------------------------------------------
(* Strings of the inputs *)

WatchUrl == <<"https://", "www.", "redgifs.com", "/watch/", "abc">>
WatchPosterUrl == <<"https://", "redgifs.com", "/watch/", "abc", "-poster", ".jpg">>
PosterUrl == <<"https://", "media.", "redgifs.com", "/", "Xyz", "-poster", ".jpg">>
ThumbUrl == <<"https://", "media.", "redgifs.com", "/", "abc", "Xyz", "-poster", ".png">>
IfrHtml == <<"<iframe src=", "https://", "redgifs.com", "/ifr/", "q1", "_", "abc", ">">>
PlainHtml == <<"<iframe src=", "https://", "example.com/", "abc", ">">>
ImageUrl == <<"https://", "i.redd.it/", "Xyz", ".jpg">>
PreviewUrl == <<"https://", "preview.redd.it/", "q1", "abc", ".JPG", "?w=1">>
UpperUrl == <<"https://", "example.com/", "abc", ".JPG">>
VideoUrl == <<"https://", "v.redd.it/", "abc", "/", "DASH_720", ".mp4", "?w=1">>
Mp4Url == <<"https://", "example.com/", "abc", ".mp4">>

----------------------------------------------------------------------------
(* extract_reddit_media *)

VARIABLES
    \* extract_reddit_media: the argument, the position in the call, the index of
    \* the next rule, the shared metadata, and the list being built
    post, pc, idx, meta, results,
    \* get_redgifs_mp4_url: the argument, the position in the call, the index of
    \* the next CDN candidate, the requests issued and their outcomes, the result
    red_id, rpc, cand, reqs, resps, ret,
    \* utils.py: REDGIFS_CLIENT, the number of clients created so far, and the
    \* calls made so far with what each did
    client, created, log

evars == <<post, pc, idx, meta, results>>
rvars == <<red_id, rpc, cand, reqs, resps, ret>>
dvars == <<client, created, log>>
vars == <<evars, rvars, dvars>>

\* f"{v}"
Format(v) ==
    CASE v.t = "str" -> v.s
      [] v.t = "null" -> <<"None">>
      [] OTHER -> <<"5">>

\* line 238
DataOf(post_json) == Get(post_json, "data", EmptyDict)

\* (mutant of MetaOf: the author is taken from the subreddit field)
MetaOfWrongAuthor(data) ==
    [title |-> Get(data, "title", EmptyStr),
     permalink |-> Str(<<"https://www.reddit.com">> \o Format(Get(data, "permalink", EmptyStr))),
     subreddit |-> Get(data, "subreddit", EmptyStr),
     author |-> Get(data, "subreddit", EmptyStr),
     id |-> Get(data, "id", EmptyStr)]

\* lines 240-246
MetaOf(data) ==
    [title |-> Get(data, "title", EmptyStr),
     permalink |-> Str(<<"https://www.reddit.com">> \o Format(Get(data, "permalink", EmptyStr))),
     subreddit |-> Get(data, "subreddit", EmptyStr),
     author |-> Get(data, "author", EmptyStr),
     id |-> Get(data, "id", EmptyStr)]

\* the list `extractors` (lines 249-255)
NumExtractors == 5
Extractor(i, data, m) ==
    CASE i = 1 -> extract_redgifs_media(data, m)
      [] i = 2 -> extract_gallery_media(data, m)
      [] i = 3 -> extract_single_image(data, m)
      [] i = 4 -> extract_single_video(data, m)
      [] i = 5 -> extract_fallback_preview(data, m)

\* (mutant of Extend: a rule's result is dropped once an earlier rule matched)
ExtendFirstOnly(res, media_items) ==
    IF res = << >> THEN res \o media_items ELSE res

\* lines 259-260
Extend(res, media_items) ==
    IF media_items # << >> THEN res \o media_items ELSE res

\* lines 238-248: the call starts
Begin ==
    /\ pc = "start"
    /\ meta' = MetaOf(DataOf(post))
    /\ results' = << >>
    /\ idx' = 1
    /\ pc' = "loop"
    /\ UNCHANGED <<post, rvars, dvars>>

\* one iteration of the loop of lines 257-260; a rule that raises ends the call
RunExtractor ==
    /\ pc = "loop"
    /\ idx <= NumExtractors
    /\ LET media_items == Extractor(idx, DataOf(post), meta) IN
         IF media_items.ok
         THEN /\ results' = Extend(results, media_items.out)
              /\ idx' = idx + 1
              /\ pc' = "loop"
         ELSE /\ pc' = "raised"
              /\ UNCHANGED <<results, idx>>
    /\ UNCHANGED <<post, meta, rvars, dvars>>

\* line 262
Return ==
    /\ pc = "loop"
    /\ idx > NumExtractors
    /\ pc' = "returned"
    /\ UNCHANGED <<post, idx, meta, results, rvars, dvars>>

\* the resolver and the downloaders at rest
ResolveIdle ==
    /\ red_id = Null /\ rpc = "idle" /\ cand = 0
    /\ reqs = << >> /\ resps = << >> /\ ret = Null
DownloadIdle == client = "None" /\ created = 0 /\ log = << >>
ExtractIdle ==
    /\ post = EmptyDict /\ pc = "idle" /\ idx = 0
    /\ meta = << >> /\ results = << >>

----------------------------------------------------------------------------
(* The posts extract_reddit_media is run on *)

\* the longest gallery item list
MaxItems == 3

\* a key that is missing, or present with one of the values Vs
Opt(k, Vs) == {<< >>} \cup {k :> v : v \in Vs}

FullMeta ==
    [title |-> Str(<<"T">>), permalink |-> Str(<<"/r/x/y">>), subreddit |-> Str(<<"x">>),
     author |-> Str(<<"a">>), id |-> Str(<<"1">>)]

GoodPreview == Dict([images |-> List(<<Dict([source |-> Dict([url |-> Str(PreviewUrl)])]),
                                       Dict([source |-> Dict([url |-> Str(ImageUrl)])])>>)])
RedditVideo == Dict([reddit_video |-> Dict([fallback_url |-> Str(VideoUrl)])])

\* posts around the third-party embed rule
RedgifsPosts ==
    {Dict([data |-> Dict(d @@ u @@ e @@ sm @@ m @@ p @@ FullMeta)]) :
        d \in Opt("domain", {Str(<<"redgifs.com">>), Str(<<"RedGIFs.com">>), Str(<<"i.redd.it">>)}),
        u \in Opt("url_overridden_by_dest",
                  {Str(WatchUrl), Str(WatchPosterUrl), Str(PosterUrl), Str(ImageUrl), Str(Mp4Url)}),
        e \in Opt("media_embed",
                  {EmptyDict, Dict([content |-> Str(IfrHtml)]), Dict([content |-> Str(PlainHtml)])}),
        sm \in Opt("secure_media",
                   {Null,
                    Dict([type |-> Str(<<"redgifs.com">>)]),
                    Dict([type |-> Str(<<"redgifs.com">>),
                          oembed |-> Dict([provider_name |-> Str(<<"RedGIFs">>),
                                           thumbnail_url |-> Str(PosterUrl)])]),
                    Dict([oembed |-> Dict([provider_name |-> Str(<<"RedGIFs">>)])]),
                    RedditVideo}),
        m \in Opt("media",
                  {Dict([oembed |-> Dict([html |-> Str(IfrHtml), thumbnail_url |-> Str(ThumbUrl)])]),
                   RedditVideo}),
        p \in Opt("preview", {GoodPreview})}

\* the media-metadata map of the gallery posts: "abc" an image, "q1" a video,
\* "x2" an image entry without a source URL, "e0" an image entry whose source
\* URL is the empty string; "Xyz" is no key of it
MetadataMap ==
    Dict([abc |-> Dict([e |-> Str(<<"Image">>), s |-> Dict([u |-> Str(ImageUrl)])]),
          e0 |-> Dict([e |-> Str(<<"Image">>), s |-> Dict([u |-> EmptyStr])]),
          q1 |-> Dict([e |-> Str(<<"Video">>), s |-> Dict([mp4 |-> Str(Mp4Url), u |-> Str(UpperUrl)])]),
          x2 |-> Dict([e |-> Str(<<"Image">>), s |-> Dict([y |-> Num])])])

Item(id) == Dict([media_id |-> Str(<<id>>)])
ItemKinds == {Item("abc"), Item("q1"), Item("e0"), Item("Xyz"), Item("x2"), EmptyDict}
ItemLists == UNION {[1..n -> ItemKinds] : n \in 0..MaxItems}

GalleryPosts ==
    {Dict([data |-> Dict(g @@ mm @@ [gallery_data |-> Dict([items |-> List(items)])] @@ FullMeta)]) :
        g \in Opt("is_gallery", {Bool(TRUE)}),
        mm \in Opt("media_metadata", {Null, MetadataMap}),
        items \in ItemLists}

\* posts whose inspected fields are, independently, missing, null or misshapen
MalformedPosts ==
    {Dict([data |-> Dict(u @@ p @@ m @@ sm @@ e @@ mm @@ gd @@ [is_gallery |-> Bool(TRUE)] @@ FullMeta)]) :
        u \in Opt("url_overridden_by_dest", {Null, Str(ImageUrl)}),
        p \in Opt("preview", {Null, Dict([images |-> List(<<Dict([source |-> Null])>>)])}),
        m \in Opt("media", {Null, Dict([reddit_video |-> Null])}),
        sm \in Opt("secure_media", {Num, Dict([reddit_video |-> Dict([fallback_url |-> Null])])}),
        e \in Opt("media_embed", {Null, Num}),
        mm \in Opt("media_metadata", {Null, Dict([abc |-> Dict([e |-> Str(<<"Image">>), s |-> Null])])}),
        gd \in Opt("gallery_data", {Dict([items |-> Null]), Dict([items |-> List(<<Item("abc")>>)])})}

\* posts whose identity fields are missing or present (a null permalink too)
MetaPosts ==
    {Dict([data |-> Dict(t @@ l @@ sr @@ a @@ i
                         @@ [url_overridden_by_dest |-> Str(ImageUrl), preview |-> GoodPreview])]) :
        t \in Opt("title", {Str(<<"T">>)}),
        l \in Opt("permalink", {Str(<<"/r/x/y">>), Null}),
        sr \in Opt("subreddit", {Str(<<"x">>)}),
        a \in Opt("author", {Str(<<"a">>)}),
        i \in Opt("id", {Str(<<"1">>)})}

Posts == RedgifsPosts \cup GalleryPosts \cup MalformedPosts \cup MetaPosts \cup {EmptyDict}

----------------------------------------------------------------------------
(* Properties of the extractor *)

Data == DataOf(post)
RuleOut(i) == Extractor(i, Data, MetaOf(Data))
Returned == pc = "returned"
\* rule i has just run and returned
JustRan(i) == pc = "loop" /\ idx = i + 1

IsGalleryPost == Truthy(Get(Data, "is_gallery", Null)) /\ Has(Data, "media_metadata")
GalleryItemsOf ==
    LET gd == Get(Data, "gallery_data", Null) IN
    IF IsDict(gd) /\ Has(gd, "items") /\ gd.d["items"].t = "list" THEN gd.d["items"].l ELSE << >>
HasId(item) == IsDict(item) /\ Has(item, "media_id") /\ IsStr(item.d["media_id"])
EntryOf(item) == Get(Data.d["media_metadata"], KeyOf(item.d["media_id"]), Null)
\* an item whose id is missing from the metadata map
AbsentItem(item) ==
    /\ HasId(item)
    /\ ~IsDict(Data.d["media_metadata"]) \/ ~Has(Data.d["media_metadata"], KeyOf(item.d["media_id"]))
\* an item with an image entry that has a source URL, or a video entry that has one
ValidItem(item) ==
    /\ HasId(item) /\ ~AbsentItem(item)
    /\ IsDict(EntryOf(item)) /\ Has(EntryOf(item), "e") /\ Has(EntryOf(item), "s")
    /\ IsDict(EntryOf(item).d["s"])
    /\ LET e == EntryOf(item).d["e"]
           src == EntryOf(item).d["s"] IN
       \/ e = Str(<<"Image">>) /\ Has(src, "u") /\ IsStr(src.d["u"])
       \/ /\ e = Str(<<"Video">>)
          /\ \E k \in {"mp4", "u"} : Has(src, k) /\ IsStr(src.d[k]) /\ src.d[k].s # << >>
ValidOrAbsentOnly == \A k \in 1..Len(GalleryItemsOf) :
                        ValidItem(GalleryItemsOf[k]) \/ AbsentItem(GalleryItemsOf[k])
ValidItems == SelectSeq(GalleryItemsOf, ValidItem)
\* what the gallery rule appended (the embed rule ran before it)
GalleryPart == SubSeq(results, Len(RuleOut(1).out) + 1, Len(results))

\* C2: on a gallery post whose items are each valid or missing from the metadata
\* map, in any interleaving, the gallery rule returns one descriptor per valid
\* item, in the items' order, each with the item's own id as media_id.
C2_GalleryValidItems ==
    (JustRan(2) /\ IsGalleryPost /\ ValidOrAbsentOnly) =>
        /\ Len(GalleryPart) = Len(ValidItems)
        /\ \A k \in 1..Len(ValidItems) :
              GalleryPart[k].media_id = ValidItems[k].d["media_id"]

\* a valid item, then a missing one, then a valid one whose URL carries another id
C2_Witness ==
    /\ JustRan(2) /\ IsGalleryPost /\ ValidOrAbsentOnly
    /\ Len(GalleryItemsOf) = 3
    /\ ValidItem(GalleryItemsOf[1]) /\ AbsentItem(GalleryItemsOf[2]) /\ ValidItem(GalleryItemsOf[3])
    /\ Len(GalleryPart) = 2
    /\ GalleryPart[2].media_id = Str(<<"abc">>)
    /\ extract_media_id_from_url(GalleryPart[2].url.s) = Str(<<"Xyz">>)

\* C3: extract_reddit_media never raises, whatever fields of the post are
\* missing, null or misshapen.
C3_NeverRaises == pc # "raised"

\* C4: a descriptor without a provider has a url that is a string; one with a
\* provider has a null url and a non-empty provider id as media_id.
C4_UrlOrProvider ==
    \A k \in 1..Len(results) :
        LET d == results[k] IN
        IF "provider" \in DOMAIN d
        THEN d.url = Null /\ IsStr(d.media_id) /\ d.media_id.s # << >>
        ELSE IsStr(d.url)

C4_Witness ==
    /\ Returned
    /\ \E k \in 1..Len(results) : "provider" \in DOMAIN results[k]
    /\ \E k \in 1..Len(results) : "provider" \notin DOMAIN results[k] /\ IsStr(results[k].url)

\* the fields the embed rule inspects, read as the claim reads them
StrOf(v) == IF IsStr(v) THEN v.s ELSE << >>
Sub(v, k) == IF IsDict(v) THEN Get(v, k, Null) ELSE Null
OembedOf == Or(Sub(Sub(Data, "secure_media"), "oembed"), Sub(Sub(Data, "media"), "oembed"))
OverrideUrl == StrOf(Sub(Data, "url_overridden_by_dest"))
EmbedHtml == StrOf(Or(Sub(Sub(Data, "media_embed"), "content"), Sub(OembedOf, "html")))
ThumbnailUrl == StrOf(Sub(OembedOf, "thumbnail_url"))
Inspected == {OverrideUrl, EmbedHtml, ThumbnailUrl}
SignalMatches ==
    \/ InStr(HasRedgifs, Lower(StrOf(Sub(Data, "domain"))))
    \/ InStr(HasRedgifsCom, OverrideUrl)
    \/ InStr(HasRedgifsCom, EmbedHtml)
    \/ Sub(Sub(Data, "secure_media"), "type") = Str(<<"redgifs.com">>)
    \/ InStr(HasRedgif, Lower(StrOf(Sub(OembedOf, "provider_name"))))
WatchId(s) == Str(SubSeq(s, Min(WatchHits(s)) + 2, RunEnd(s, Min(WatchHits(s)) + 2, IdChar)))
PosterId(s) == Str(SubSeq(s, Min(PosterHits(s)) + 1, RunEnd(s, Min(PosterHits(s)) + 1, Alnum)))
WatchIds == {WatchId(s) : s \in {i \in Inspected : WatchHits(i) # {}}}
PosterIds == {PosterId(s) : s \in {i \in Inspected : PosterHits(i) # {}}}

\* C8: the embed rule returns at most one descriptor: exactly one, with type
\* video, url null, provider "redgifs", extension "mp4" and a recovered id as
\* media_id, when a detection signal matches and an id is recoverable; none otherwise.
C8_RedgifsAtMostOne ==
    JustRan(1) =>
        IF SignalMatches /\ WatchIds \cup PosterIds # {}
        THEN /\ Len(results) = 1
             /\ results[1].type = Str(<<"video">>)
             /\ results[1].url = Null
             /\ results[1].provider = Str(<<"redgifs">>)
             /\ results[1].extension = Str(<<"mp4">>)
             /\ results[1].media_id \in WatchIds \cup PosterIds
        ELSE results = << >>

\* a post detected by its oembed provider name alone, its id from the thumbnail slug
C8_Witness ==
    /\ JustRan(1)
    /\ Len(results) = 1
    /\ ~InStr(HasRedgifsCom, OverrideUrl) /\ ~Has(Data, "domain") /\ ~Has(Data, "media_embed")
    /\ WatchIds = {}
    /\ results[1].media_id \in PosterIds

IdentityFields == {"title", "permalink", "subreddit", "author", "id"}

\* C9 as stated: every descriptor carries title, permalink, subreddit, author and
\* id equal to the post's own values, unchanged, and all descriptors of a post
\* carry the same five values.
C9_Verbatim ==
    \A k \in 1..Len(results) :
        \A f \in IdentityFields :
            /\ Has(Data, f) => results[k][f] = Data.d[f]
            /\ results[k][f] = results[1][f]

\* C9 as amended: title, subreddit, author and id are the post's own values (the
\* empty string for a missing field); permalink is "https://www.reddit.com"
\* followed by the post's permalink as an f-string formats it (by nothing when
\* the field is missing); all descriptors of a post carry the same five values.
C9_VerbatimButPermalink ==
    \A k \in 1..Len(results) :
        /\ \A f \in IdentityFields \ {"permalink"} :
              results[k][f] = (IF Has(Data, f) THEN Data.d[f] ELSE EmptyStr)
        /\ IsStr(results[k].permalink)
        /\ Head(results[k].permalink.s) = "https://www.reddit.com"
        /\ Tail(results[k].permalink.s) =
              (IF Has(Data, "permalink") THEN Format(Data.d["permalink"]) ELSE << >>)
        /\ \A f \in IdentityFields : results[k][f] = results[1][f]

C9_Witness ==
    /\ Returned
    /\ Len(results) >= 2
    /\ Has(Data, "permalink") /\ Data.d["permalink"] = Str(<<"/r/x/y">>)
    /\ results[2].permalink = Str(<<"https://www.reddit.com", "/r/x/y">>)
    /\ ~Has(Data, "author") /\ results[2].author = EmptyStr

\* C10: when the embed rule emits a descriptor and some inspected input
\* (override URL, embed HTML, oembed thumbnail URL) matches the watch/embed
\* pattern, the id comes from a watch/embed match.
C10_WatchPatternFirst ==
    (JustRan(1) /\ results # << >> /\ WatchIds # {}) => results[1].media_id \in WatchIds

ExtractInit ==
    /\ post \in Posts
    /\ pc = "start"
    /\ idx = 0
    /\ meta = << >>
    /\ results = << >>
    /\ ResolveIdle /\ DownloadIdle

ExtractNext == Begin \/ RunExtractor \/ Return

SpecExtract == ExtractInit /\ [][ExtractNext]_vars

----------------------------------------------------------------------------
(* get_redgifs_mp4_url *)

\* a JSON object of the API's answer, by its values() in insertion order
JObject(vals) == [t |-> "jobject", vals |-> vals]

\* obj.lower().endswith(".mp4")
EndsWithMp4(s) == s # << >> /\ LowerTok(s[Len(s)]) = ".mp4"
\* ".mp4?" in obj.lower()
HasMp4Query(s) == \E i \in 1..(Len(s) - 1) : LowerTok(s[i]) = ".mp4" /\ s[i + 1] \in Query
\* obj.split('.mp4')[0] + '.mp4'
CutAtMp4(s) ==
    LET hits == {i \in 1..Len(s) : s[i] = ".mp4"}
    IN  (IF hits = {} THEN s ELSE SubSeq(s, 1, Min(hits) - 1)) \o <<".mp4">>

\* lines 105-124
RECURSIVE find_first_mp4(_)
find_first_mp4(obj) ==
    IF obj.t = "str"
    THEN IF EndsWithMp4(obj.s) THEN obj
         ELSE IF HasMp4Query(obj.s) THEN Str(CutAtMp4(obj.s))
         ELSE Null
    ELSE IF obj.t \in {"jobject", "list"}
    THEN LET vals == IF obj.t = "list" THEN obj.l ELSE obj.vals
             found == [i \in 1..Len(vals) |-> find_first_mp4(vals[i])]
             hits == {i \in 1..Len(vals) : Truthy(found[i])}
         IN  IF hits = {} THEN Null ELSE found[Min(hits)]
    ELSE Null

\* line 135
ApiUrl(id) == <<"https://", "api.redgifs.com", "/v2/gifs/">> \o Format(id)

\* (mutant of Candidates: the mobile rendition is guessed first)
CandidatesMobileFirst(id) ==
    << <<"https://", "thumbs2.redgifs.com", "/">> \o Format(id) \o <<"-mobile", ".mp4">>,
       <<"https://", "thumbs2.redgifs.com", "/">> \o Format(id) \o <<".mp4">>,
       <<"https://", "thumbs1.redgifs.com", "/">> \o Format(id) \o <<".mp4">> >>

\* lines 149-153
Candidates(id) ==
    << <<"https://", "thumbs2.redgifs.com", "/">> \o Format(id) \o <<".mp4">>,
       <<"https://", "thumbs2.redgifs.com", "/">> \o Format(id) \o <<"-mobile", ".mp4">>,
       <<"https://", "thumbs1.redgifs.com", "/">> \o Format(id) \o <<".mp4">> >>

\* the answers of the API: the request fails (connection error or timeout), the
\* status is not 2xx (raise_for_status raises), the body is not JSON, or a body
MaxBody == 2
HdUrl == <<"https://", "media.", "redgifs.com", "/", "Xyz", ".mp4">>
SdUrl == <<"https://", "media.", "redgifs.com", "/", "Xyz", "-mobile", ".mp4", "?w=1">>
UpperSdUrl == <<"https://", "media.", "redgifs.com", "/", "Xyz", ".MP4", "?w=1">>
JsonValues ==
    {Str(PosterUrl), Str(HdUrl), Str(SdUrl), Str(UpperSdUrl), Num,
     JObject(<<Str(PosterUrl), Str(HdUrl)>>), List(<<Str(SdUrl), Str(HdUrl)>>),
     JObject(<<Num, List(<<Str(PosterUrl)>>)>>), List(<< >>)}
Bodies == {JObject(vs) : vs \in UNION {[1..n -> JsonValues] : n \in 0..MaxBody}}
ApiOutcomes ==
    {[kind |-> k, body |-> Null] : k \in {"error", "status", "badjson"}}
        \cup {[kind |-> "json", body |-> b] : b \in Bodies}
\* the answers to a HEAD probe
HeadOutcomes == {[kind |-> k, body |-> Null] : k \in {"error", "200", "404"}}

Request(method, url) == [method |-> method, url |-> url]

\* lines 132-133
ResolveEmpty ==
    /\ rpc = "start"
    /\ ~Truthy(red_id)
    /\ ret' = Null
    /\ rpc' = "done"
    /\ UNCHANGED <<red_id, cand, reqs, resps, evars, dvars>>

\* lines 135-145: one GET; the first .mp4 string of the body is returned
ApiLookup ==
    /\ rpc = "start"
    /\ Truthy(red_id)
    /\ \E out \in ApiOutcomes :
         /\ reqs' = Append(reqs, Request("GET", ApiUrl(red_id)))
         /\ resps' = Append(resps, out)
         /\ IF out.kind = "json" /\ Truthy(find_first_mp4(out.body))
            THEN /\ ret' = find_first_mp4(out.body)
                 /\ rpc' = "done"
                 /\ cand' = cand
            ELSE /\ rpc' = "cdn"
                 /\ cand' = 1
                 /\ ret' = ret
    /\ UNCHANGED <<red_id, evars, dvars>>

\* lines 154-160: one HEAD on the next candidate
Probe ==
    /\ rpc = "cdn"
    /\ cand <= Len(Candidates(red_id))
    /\ \E out \in HeadOutcomes :
         /\ reqs' = Append(reqs, Request("HEAD", Candidates(red_id)[cand]))
         /\ resps' = Append(resps, out)
         /\ IF out.kind = "200"
            THEN /\ ret' = Str(Candidates(red_id)[cand])
                 /\ rpc' = "done"
                 /\ cand' = cand
            ELSE /\ cand' = cand + 1
                 /\ UNCHANGED <<ret, rpc>>
    /\ UNCHANGED <<red_id, evars, dvars>>

\* line 161
Exhausted ==
    /\ rpc = "cdn"
    /\ cand > Len(Candidates(red_id))
    /\ ret' = Null
    /\ rpc' = "done"
    /\ UNCHANGED <<red_id, cand, reqs, resps, evars, dvars>>

ResolveInit ==
    /\ red_id \in {Null, EmptyStr, Str(<<"abc">>), Str(<<"Xyz", "q1">>)}
    /\ rpc = "start" /\ cand = 0
    /\ reqs = << >> /\ resps = << >> /\ ret = Null
    /\ ExtractIdle /\ DownloadIdle

ResolveNext == ResolveEmpty \/ ApiLookup \/ Probe \/ Exhausted

SpecResolve == ResolveInit /\ [][ResolveNext]_vars

----------------------------------------------------------------------------
(* Properties of the resolver *)

\* the strings of a JSON value, in encounter order
RECURSIVE StringsOf(_)
RECURSIVE StringsOfAll(_, _)
StringsOf(obj) ==
    CASE obj.t = "str" -> <<obj.s>>
      [] obj.t = "list" -> StringsOfAll(obj.l, 1)
      [] obj.t = "jobject" -> StringsOfAll(obj.vals, 1)
      [] OTHER -> << >>
StringsOfAll(vals, k) ==
    IF k > Len(vals) THEN << >> ELSE StringsOf(vals[k]) \o StringsOfAll(vals, k + 1)

\* a video URL: it ends in .mp4, or carries .mp4 before a query string
IsVideoUrl(s) == EndsWithMp4(s) \/ HasMp4Query(s)
\* the video URLs of the API's answer, if it answered with JSON
VideoUrls ==
    IF resps # << >> /\ resps[1].kind = "json"
    THEN SelectSeq(StringsOf(resps[1].body), IsVideoUrl)
    ELSE << >>

Templates(id) ==
    << <<"https://", "thumbs2.redgifs.com", "/">> \o id \o <<".mp4">>,
       <<"https://", "thumbs2.redgifs.com", "/">> \o id \o <<"-mobile", ".mp4">>,
       <<"https://", "thumbs1.redgifs.com", "/">> \o id \o <<".mp4">> >>
Probes == SubSeq(reqs, 2, Len(reqs))
Answers == SubSeq(resps, 2, Len(resps))

\* the part of C5 about the requests: one GET first, then HEAD probes of the
\* templates in their order, each request once, none after a 200 or after a
\* matching API answer, and the result the first template answering 200, or
\* None when all three were probed in vain
ProbeDiscipline ==
    /\ reqs # << >> => reqs[1] = Request("GET", <<"https://", "api.redgifs.com", "/v2/gifs/">> \o red_id.s)
    /\ \A i, j \in 1..Len(reqs) : reqs[i] = reqs[j] => i = j
    /\ VideoUrls # << >> => Len(reqs) <= 1
    /\ Len(Probes) <= 3
    /\ \A k \in 1..Len(Probes) : Probes[k] = Request("HEAD", Templates(red_id.s)[k])
    /\ \A k \in 1..(Len(Probes) - 1) : Answers[k].kind # "200"
    /\ (rpc = "done" /\ Truthy(red_id) /\ VideoUrls = << >>) =>
          IF \E k \in 1..Len(Probes) : Answers[k].kind = "200"
          THEN ret = Str(Templates(red_id.s)[Len(Probes)])
          ELSE Len(Probes) = 3 /\ ret = Null

C5_WitnessQuery ==
    /\ rpc = "done"
    /\ VideoUrls # << >> /\ ~EndsWithMp4(VideoUrls[1])
    /\ Len(reqs) = 1
    /\ ret = Str(<<"https://", "media.", "redgifs.com", "/", "Xyz", "-mobile", ".mp4">>)

----------------------------------------------------------------------------
(* The downloaders of utils.py.  A call is one action; what the network, the *)
(* file system and the RedGIFs client answer is chosen by the environment.   *)
(* A call's outcome is [result, why]: result is "path" (output_file is       *)
(* returned), "None", or "raised" (an exception reaches the caller), and why *)
(* names the step that failed.                                               *)

\* the most calls in one run
MaxCalls == 3

Outcome(result, why) == [result |-> result, why |-> why]

\* what output_file is: a pathlib.Path, or a str as download_video's docstring allows
ArgKinds == {"Path", "str"}
\* session.get and raise_for_status: a 2xx answer, or a RequestException
GetAnswers == {"ok", "RequestException"}
\* output_file.open and the chunked write: done, the file system refuses (the
\* parent directory is missing, say), or the stream breaks
SaveAnswers == {"ok", "OSError", "RequestException"}
\* output_file.parent.mkdir(parents=True, exist_ok=True)
MkdirAnswers == {"ok", "OSError"}
\* redgifs.API().login(), get_gif and download
LoginAnswers == {"ok", "HTTPException", "Exception"}
GifAnswers == {"ok", "HTTPException404", "HTTPException410", "HTTPException", "Exception"}
FetchAnswers == {"ok", "HTTPException", "Exception"}

\* lines 55-68: everything after the session is made runs inside the try
download_image(arg, get, save) ==
    IF get # "ok" THEN Outcome("None", "get")
    ELSE IF arg = "str" \/ save # "ok" THEN Outcome("None", "save")
    ELSE Outcome("path", "")

\* lines 83-118: the parent directory is made before the try
download_video(arg, mkdir, get, save) ==
    IF arg = "str" THEN Outcome("raised", "parent")
    ELSE IF mkdir # "ok" THEN Outcome("raised", "mkdir")
    ELSE IF get # "ok" THEN Outcome("None", "get")
    ELSE IF save # "ok" THEN Outcome("None", "save")
    ELSE Outcome("path", "")

\* (mutant of ClientAfter: a failed call drops the client)
ClientAfterReset(before, login, new, result) ==
    IF result = "None" THEN "None"
    ELSE IF before = "None" /\ login = "ok" THEN new ELSE before

\* lines 125-126: REDGIFS_CLIENT after the call
ClientAfter(before, login, new, result) ==
    IF before = "None" /\ login = "ok" THEN new ELSE before

\* lines 122-155
download_redgifs_video(before, login, gif, fetch) ==
    IF before = "None" /\ login # "ok" THEN Outcome("None", "login")
    ELSE IF gif # "ok" THEN Outcome("None", "get_gif")
    ELSE IF fetch # "ok" THEN Outcome("None", "download")
    ELSE Outcome("path", "")

\* one call, as the log keeps it
Entry(fn, out, before, after, login) ==
    [fn |-> fn, result |-> out.result, why |-> out.why,
     before |-> before, after |-> after, login |-> login]

DownloadImage ==
    /\ Len(log) < MaxCalls
    /\ \E arg \in ArgKinds, get \in GetAnswers, save \in SaveAnswers :
         log' = Append(log, Entry("download_image", download_image(arg, get, save),
                                  client, client, "none"))
    /\ UNCHANGED <<client, created, evars, rvars>>

DownloadVideo ==
    /\ Len(log) < MaxCalls
    /\ \E arg \in ArgKinds, mkdir \in MkdirAnswers, get \in GetAnswers, save \in SaveAnswers :
         log' = Append(log, Entry("download_video", download_video(arg, mkdir, get, save),
                                  client, client, "none"))
    /\ UNCHANGED <<client, created, evars, rvars>>

DownloadRedgifs ==
    /\ Len(log) < MaxCalls
    /\ \E login \in LoginAnswers, gif \in GifAnswers, fetch \in FetchAnswers :
         LET out == download_redgifs_video(client, login, gif, fetch)
             tried == IF client = "None" THEN (IF login = "ok" THEN "ok" ELSE "failed") ELSE "none"
             new == <<"API", created + 1>>
             after == ClientAfter(client, login, new, out.result)
         IN  /\ client' = after
             /\ created' = IF tried = "ok" THEN created + 1 ELSE created
             /\ log' = Append(log, Entry("download_redgifs_video", out, client, after, tried))
    /\ UNCHANGED <<evars, rvars>>

DownloadInit ==
    /\ client = "None" /\ created = 0 /\ log = << >>
    /\ ExtractIdle /\ ResolveIdle

DownloadNext == DownloadImage \/ DownloadVideo \/ DownloadRedgifs

SpecDownload == DownloadInit /\ [][DownloadNext]_vars

----------------------------------------------------------------------------
(* Properties of the downloaders *)

RedgifsCalls == {k \in 1..Len(log) : log[k].fn = "download_redgifs_video"}

\* C6: REDGIFS_CLIENT is created at most once: only a successful login sets it,
\* and once set no call replaces or clears it, whatever fails later; a call
\* whose login fails returns None and leaves it unset, and the next call logs
\* in again.
C6_ClientCreatedOnce ==
    /\ created <= 1
    /\ client = "None" <=> created = 0
    /\ \A k \in 1..Len(log) :
          /\ log[k].before = (IF k = 1 THEN "None" ELSE log[k - 1].after)
          /\ log[k].before # "None" => log[k].after = log[k].before /\ log[k].login = "none"
          /\ log[k].after # log[k].before =>
                log[k].fn = "download_redgifs_video" /\ log[k].login = "ok"
          /\ (k \in RedgifsCalls /\ log[k].before = "None") =>
                /\ log[k].login \in {"ok", "failed"}
                /\ log[k].login = "failed" => log[k].after = "None" /\ log[k].result = "None"
                /\ log[k].login = "ok" => log[k].after # "None"

\* a login that fails, a second call that logs in and then fails to download,
\* a third call that finds the client of the second
C6_Witness ==
    /\ Len(log) = 3
    /\ RedgifsCalls = {1, 2, 3}
    /\ log[1].login = "failed" /\ log[1].result = "None"
    /\ log[2].login = "ok" /\ log[2].why = "download"
    /\ log[3].login = "none" /\ log[3].before = log[2].after /\ log[3].after = client

\* C7: every call of download_image, download_video and download_redgifs_video
\* returns the output path or None; no exception reaches the caller.
C7_NoExceptionEscapes ==
    \A k \in 1..Len(log) : log[k].result \in {"path", "None"}

====
